---- MODULE Spec2Model ----
(***************************************************************************)
(* Session lifecycle of the autocode backend: projects driven through a    *)
(* terminal multiplexer (app/api/projects.py, app/services/tmux.py) and    *)
(* research sessions driven one-shot (app/api/research.py), with the       *)
(* terminal stream (app/api/ws.py) and the work loop of a project          *)
(* (app/services/coding_agent.py).                                         *)
(*                                                                         *)
(* Strings that the code computes with (names, slugs, session names) are   *)
(* sequences of one-character strings.  A timestamp field holds 0 for None *)
(* and otherwise the number of clock readings written to it: a reading     *)
(* written over an older one is a different value.  The columns name,      *)
(* description, created_at and updated_at, which no handler reads, are     *)
(* left out.  The multiplexer matches a session by its exact name.  The   *)
(* text of a pane is an input of every capture.                            *)
(***************************************************************************)
EXTENDS Integers, Sequences, FiniteSets, TLC

\* ---------------------------------------------------------------- bounds
MaxNameLen == 2
MaxProjects == 2
MaxInstances == 2
MaxResearch == 1
MaxTasks == 2
MaxMessages == 4
MaxSent == 3
MaxPrompts == 3
MaxTextLen == 3
MaxSteps == 2

\* ------------------------------------------------------------ input sets
\* character classes of a name: lower-case letter, upper-case letter,
\* whitespace, dash, punctuation
Chars == {"a", "A", " ", "-", "!"}
Names == UNION {[1..k -> Chars] : k \in 0..MaxNameLen}
\* the names the lifecycle specification creates contexts with
SampleNames == {<<"a">>, <<"!">>}

\* texts of a pane: empty, output of a busy program, a shell prompt
Texts == {<<>>, <<"x">>, <<"$">>}
\* character classes of a pane: output, blank, line break and the three
\* prompt glyphs ("u276f" stands for the character U+276F)
PaneChars == {"x", " ", "\n", ">", "$", "u276f"}
PaneTexts == UNION {[1..k -> PaneChars] : k \in 0..MaxTextLen}
\* what _get_current_step hands to the loop: None or a step
None == 0
Steps == {1}

Users == {1, 2}
\* the websocket connections to project_terminal
Connections == {1, 2}
Agents == {1, 2}
\* Agent.user_id of the two agents
agent_owner(a) == a
\* User.username (unique per user)
username(u) == IF u = 1 THEN <<"u">> ELSE <<"v">>

\* ------------------------------------------------------- _generate_slug
\* str.lower()
lower(s) == [i \in 1..Len(s) |-> IF s[i] = "A" THEN "a" ELSE s[i]]

RECURSIVE lstrip(_, _)
lstrip(s, c) ==
    IF s # <<>> /\ Head(s) = c THEN lstrip(Tail(s), c) ELSE s

RECURSIVE rstrip(_, _)
rstrip(s, c) ==
    IF s # <<>> /\ s[Len(s)] = c THEN rstrip(SubSeq(s, 1, Len(s) - 1), c) ELSE s

\* str.strip(c)
strip(s, c) == rstrip(lstrip(s, c), c)

\* re.sub(r"[^a-z0-9\s-]", "", slug)
IsSlugChar(c) == c \in {"a", " ", "-"}
remove_invalid(s) == SelectSeq(s, IsSlugChar)

\* re.sub(c+, r, slug): every maximal run of c becomes one r
RECURSIVE collapse(_, _, _)
collapse(s, c, r) ==
    IF s = <<>> THEN <<>>
    ELSE IF Head(s) = c THEN <<r>> \o collapse(lstrip(s, c), c, r)
    ELSE <<Head(s)>> \o collapse(Tail(s), c, r)

\* _generate_slug without the final strip("-")
generate_slug_unstripped(name) ==
    collapse(collapse(remove_invalid(strip(lower(name), " ")), " ", "-"),
             "-", "-")

generate_slug(name) ==
    strip(collapse(collapse(remove_invalid(strip(lower(name), " ")),
                            " ", "-"), "-", "-"), "-")

\* ----------------------------------------------------------- TmuxManager
\* a call to the multiplexer, as recorded in the call log
Call(fn, name) == [fn |-> fn, name |-> name]

\* what the tmux command cmd does with the session name, the live
\* sessions being sess and pane the text its pane shows: the sessions
\* afterwards, the exit status and the standard output
Ended(sess, returncode, stdout) ==
    [sessions |-> sess, returncode |-> returncode, stdout |-> stdout]

tmux(sess, cmd, name, pane) ==
    CASE cmd = "new-session" ->
            IF name \in sess THEN Ended(sess, 1, <<>>)
            ELSE Ended(sess \cup {name}, 0, <<>>)
      [] cmd = "kill-session" ->
            IF name \in sess THEN Ended(sess \ {name}, 0, <<>>)
            ELSE Ended(sess, 1, <<>>)
      [] cmd = "capture-pane" ->
            IF name \in sess THEN Ended(sess, 0, pane)
            ELSE Ended(sess, 1, <<>>)
      [] OTHER ->  \* has-session, send-keys
            IF name \in sess THEN Ended(sess, 0, <<>>)
            ELSE Ended(sess, 1, <<>>)

\* subprocess.run(["tmux", cmd, "-t", name, ...], check=check): with check
\* it raises CalledProcessError on a non-zero exit status
run(sess, cmd, name, pane, check) ==
    LET r == tmux(sess, cmd, name, pane)
    IN  [sessions |-> r.sessions, returncode |-> r.returncode,
         stdout |-> r.stdout, raised |-> check /\ r.returncode # 0]

\* the subprocess.run of create_session and of send_keys (check=True)
run_create_session(sess, name) == run(sess, "new-session", name, <<>>, TRUE)
run_send_keys(sess, name) == run(sess, "send-keys", name, <<>>, TRUE)

\* kill_session run with check=True
run_kill_session_checked(sess, name) ==
    run(sess, "kill-session", name, <<>>, TRUE)

\* the subprocess.run of kill_session, session_exists and capture_pane
run_kill_session(sess, name) == run(sess, "kill-session", name, <<>>, FALSE)
run_session_exists(sess, name) == run(sess, "has-session", name, <<>>, FALSE)
run_capture_pane(sess, name, pane) ==
    run(sess, "capture-pane", name, pane, FALSE)

\* the command of a check=True call that fails for a reason outside the
\* store, or "none": new-session refused by the server, send-keys
\* finding that the session's shell has exited
Faults == {"none", "new-session", "send-keys"}

\* the subprocess.run of create_session and send_keys when the command
\* fault fails: a non-zero exit status, no session made by new-session,
\* the session gone at send-keys
run_on(sess, cmd, name, fault) ==
    IF fault = cmd
    THEN [sessions |-> sess \ {name}, returncode |-> 1, stdout |-> <<>>,
          raised |-> TRUE]
    ELSE run(sess, cmd, name, <<>>, TRUE)

\* a handler that calls create_session or send_keys gets the exception
create_session_ok(sess, name) == ~run_create_session(sess, name).raised
send_keys_ok(sess, name) == ~run_send_keys(sess, name).raised
create_session(sess, name) == run_create_session(sess, name).sessions
kill_session(sess, name) == run_kill_session(sess, name).sessions
\* return result.returncode == 0
session_exists(sess, name) == run_session_exists(sess, name).returncode = 0
\* return result.stdout
capture_pane(sess, name, pane) == run_capture_pane(sess, name, pane).stdout

\* ------------------------------------------------------------ the store
Max(S) == CHOOSE x \in S : \A y \in S : y <= x
\* INTEGER PRIMARY KEY of sqlite: largest rowid in the table plus one
NewId(S) == IF S = {} THEN 1 ELSE Max(S) + 1

project_workspace(u, slug) == <<username(u), "projects", slug>>
research_workspace(u, slug) == <<username(u), "research", slug>>
project_tmux_session(u, slug) == username(u) \o <<"-">> \o slug

VARIABLES
    projects,       \* table projects: id -> row
    instances,      \* table agent_instances: id -> row
    research,       \* table research_sessions: id -> row
    messages,       \* table chat_messages, in creation order
    sessions,       \* names of the live multiplexer sessions
    dirs,           \* workspace directories that exist
    files,          \* files that exist: directory and path inside it
    tasks,          \* background response tasks not yet finished
    running_tasks,  \* _running_tasks: research id -> task
    connections,    \* the connections of project_terminal and their loops
    loop,           \* the CodingAgentLoop and the position of its task
    last            \* the request handled last and its response

vars == <<projects, instances, research, messages, sessions, dirs, files,
          tasks, running_tasks, connections, loop, last>>

\* the variables of the request handlers and of the response tasks
dbvars == <<projects, instances, research, messages, sessions, dirs, files,
            tasks, running_tasks>>

\* the store, the file system, the multiplexer and the event loop's tasks,
\* as one value the handlers map to their result
Db == [projects |-> projects, instances |-> instances,
       research |-> research, messages |-> messages,
       sessions |-> sessions, dirs |-> dirs, files |-> files,
       tasks |-> tasks, running_tasks |-> running_tasks]

Result(db, code, calls) == [db |-> db, code |-> code, calls |-> calls]

\* the request handled last: operation, caller, path id, body name, the
\* status its row had when it arrived ("" without a row), response status,
\* the multiplexer calls it made, in order, and whether it succeeded right
\* after the same request had succeeded
NoRequest == [op |-> "none", user |-> 0, id |-> 0, name |-> <<>>,
              was |-> "", code |-> 0, calls |-> <<>>, again |-> FALSE]
Request(op, u, id, name, was, code, calls) ==
    [op |-> op, user |-> u, id |-> id, name |-> name, was |-> was,
     code |-> code, calls |-> calls,
     again |-> /\ code = 200 /\ last.code = 200
               /\ last.op = op /\ last.user = u /\ last.id = id]

\* the status of row id of a table, "" without the row
StatusIn(table, id) == IF id \in DOMAIN table THEN table[id].status ELSE ""

\* no CodingAgentLoop yet.  pc is the position of the task that runs
\* start(); step is the step in work (None without one); elapsed,
\* output, last_output and no_change_count are the locals of
\* _monitor_until_done (output is the empty text before the first capture);
\* prompts counts the send_keys calls, done the _mark_step_done calls,
\* status is the last argument of _update_project_status, returned
\* tells what ended the last _monitor_until_done and stopped that stop()
\* was called
NoLoop == [pc |-> "none", project_id |-> 0, tmux_session |-> <<>>,
           running |-> FALSE, error_count |-> 0, step |-> None,
           elapsed |-> 0, output |-> <<>>, last_output |-> <<>>,
           no_change_count |-> 0,
           prompts |-> 0, done |-> 0, status |-> "", returned |-> "",
           stopped |-> FALSE]

\* no streaming connection yet: pc is the position of project_terminal,
\* client tells whether the peer is still there, sent is what send_text
\* delivered, in order, and called the methods of TmuxManager the
\* handler has called
NoTerminal == [pc |-> "idle", client |-> "none", tmux_session |-> <<>>,
               last_output |-> <<>>, sent |-> <<>>, called |-> {}]

\* the first connection
terminal == connections[1]

Init ==
    /\ projects = <<>>
    /\ instances = <<>>
    /\ research = <<>>
    /\ messages = <<>>
    /\ sessions = {}
    /\ dirs = {}
    /\ files = {}
    /\ tasks = <<>>
    /\ running_tasks = <<>>
    /\ connections = [c \in Connections |-> NoTerminal]
    /\ loop = NoLoop
    /\ last = NoRequest

\* a table with row r stored under id
Put(table, id, r) ==
    [i \in DOMAIN table \cup {id} |-> IF i = id THEN r ELSE table[i]]
\* a table without the rows whose ids are in ids
Drop(table, ids) == [i \in DOMAIN table \ ids |-> table[i]]

\* a file of a workspace directory
File(dir, path) == [dir |-> dir, path |-> path]

\* _setup_workspace: the directory, .claude/CLAUDE.md and
\* .nanobot/IDENTITY.md
setup_workspace(db, workspace) ==
    [db EXCEPT !.dirs = @ \cup {workspace},
               !.files = @ \cup {File(workspace, ".claude/CLAUDE.md"),
                                 File(workspace, ".nanobot/IDENTITY.md")}]

\* if workspace.exists(): shutil.rmtree(workspace)
rmtree(db, workspace) ==
    [db EXCEPT !.dirs = @ \ {workspace},
               !.files = {f \in @ : f.dir # workspace}]

\* _get_project_or_404 without the comparison of the owner
project_found_any(db, u, p) == p \in DOMAIN db.projects

\* _get_project_or_404
project_found(db, u, p) ==
    p \in DOMAIN db.projects /\ db.projects[p].user_id = u

\* the rows of agent_instances that belong to project p
instances_of(db, p) == {i \in DOMAIN db.instances : db.instances[i].project_id = p}
running_instances_of(db, p) ==
    {i \in instances_of(db, p) : db.instances[i].status = "running"}

\* field = datetime.utcnow(), written over the value old
utcnow(old) == old + 1

\* the loop over every row of the project, running or not
stop_instances_unfiltered(db, p) ==
    [i \in DOMAIN db.instances |->
        IF i \in instances_of(db, p)
        THEN [db.instances[i] EXCEPT !.status = "stopped", !.stopped_at = utcnow(@)]
        ELSE db.instances[i]]

\* the loop "for instance in instances: status = stopped; stopped_at = now"
\* over the running rows of the project
stop_instances(db, p) ==
    [i \in DOMAIN db.instances |->
        IF i \in running_instances_of(db, p)
        THEN [db.instances[i] EXCEPT !.status = "stopped", !.stopped_at = utcnow(@)]
        ELSE db.instances[i]]

\* AgentInstance(..., status="running", started_at=utcnow())
new_instance(db, u, p) ==
    [user_id |-> u, agent_id |-> db.projects[p].agent_id, project_id |-> p,
     status |-> "running", started_at |-> utcnow(0), stopped_at |-> 0]

\* create_project starting the multiplexer session of the new project
create_project_starting(db, u, ag, name) ==
    LET slug == generate_slug(name)
        id == NewId(DOMAIN db.projects)
        row == [user_id |-> u, agent_id |-> ag, slug |-> slug,
                status |-> "created",
                tmux_session |-> project_tmux_session(u, slug),
                workspace_path |-> project_workspace(u, slug)]
    IN  IF agent_owner(ag) # u THEN Result(db, 404, <<>>)
        ELSE IF slug = <<>> THEN Result(db, 400, <<>>)
        ELSE Result([setup_workspace(db, row.workspace_path) EXCEPT
                       !.sessions = create_session(@, row.tmux_session),
                       !.projects = Put(@, id, row)],
                    201, <<Call("create_session", row.tmux_session)>>)

\* POST /agents/{agent_id}/projects
create_project(db, u, ag, name) ==
    LET slug == generate_slug(name)
        id == NewId(DOMAIN db.projects)
        row == [user_id |-> u, agent_id |-> ag, slug |-> slug,
                status |-> "created",
                tmux_session |-> project_tmux_session(u, slug),
                workspace_path |-> project_workspace(u, slug)]
    IN  IF agent_owner(ag) # u THEN Result(db, 404, <<>>)
        ELSE IF slug = <<>> THEN Result(db, 400, <<>>)
        ELSE Result([setup_workspace(db, row.workspace_path) EXCEPT
                       !.projects = Put(@, id, row)],
                    201, <<>>)

\* GET /projects/{project_id}
get_project(db, u, p) ==
    IF ~project_found(db, u, p) THEN Result(db, 404, <<>>)
    ELSE Result(db, 200, <<>>)

\* PUT /projects/{project_id}: description, architecture and updated_at
update_project(db, u, p) ==
    IF ~project_found(db, u, p) THEN Result(db, 404, <<>>)
    ELSE Result(db, 200, <<>>)

\* DELETE /projects/{project_id}
delete_project(db, u, p) ==
    IF ~project_found(db, u, p) THEN Result(db, 404, <<>>)
    ELSE
    LET project == db.projects[p]
        kill == project.tmux_session # <<>>
    IN  Result([rmtree(db, project.workspace_path) EXCEPT
                  !.sessions = IF kill THEN kill_session(@, project.tmux_session)
                               ELSE @,
                  !.instances = Drop(@, instances_of(db, p)),
                  !.projects = Drop(@, {p})],
               200,
               IF kill THEN <<Call("kill_session", project.tmux_session)>>
               ELSE <<>>)

\* start_project without the "already running" check
start_project_unchecked(db, u, p) ==
    IF ~project_found(db, u, p) THEN Result(db, 404, <<>>)
    ELSE
    LET project == db.projects[p]
        name == project.tmux_session
        made == [db EXCEPT !.dirs = @ \cup {project.workspace_path}]
        created == [made EXCEPT !.sessions = create_session(@, name)]
    IN  IF ~create_session_ok(made.sessions, name)
        THEN Result(made, 500, <<Call("create_session", name)>>)
        ELSE Result([created EXCEPT
                       !.instances = Put(@, NewId(DOMAIN @),
                                         new_instance(db, u, p)),
                       !.projects[p].status = "running"],
                    200,
                    <<Call("create_session", name), Call("send_keys", name)>>)

\* POST /projects/{project_id}/start, the multiplexer failing the command
\* fault: the exception leaves the handler before session.commit()
start_project_on(db, u, p, fault) ==
    IF ~project_found(db, u, p) THEN Result(db, 404, <<>>)
    ELSE
    LET project == db.projects[p]
        name == project.tmux_session
        made == [db EXCEPT !.dirs = @ \cup {project.workspace_path}]
        new == run_on(made.sessions, "new-session", name, fault)
        created == [made EXCEPT !.sessions = new.sessions]
        sent == run_on(created.sessions, "send-keys", name, fault)
    IN  IF project.status = "running" THEN Result(db, 400, <<>>)
        ELSE IF new.raised
        THEN Result(made, 500, <<Call("create_session", name)>>)
        ELSE IF sent.raised
        THEN Result([created EXCEPT !.sessions = sent.sessions], 500,
                    <<Call("create_session", name), Call("send_keys", name)>>)
        ELSE Result([created EXCEPT
                       !.instances = Put(@, NewId(DOMAIN @),
                                         new_instance(db, u, p)),
                       !.projects[p].status = "running"],
                    200,
                    <<Call("create_session", name), Call("send_keys", name)>>)

\* POST /projects/{project_id}/start
start_project(db, u, p) ==
    IF ~project_found(db, u, p) THEN Result(db, 404, <<>>)
    ELSE
    LET project == db.projects[p]
        name == project.tmux_session
        made == [db EXCEPT !.dirs = @ \cup {project.workspace_path}]
        created == [made EXCEPT !.sessions = create_session(@, name)]
    IN  IF project.status = "running" THEN Result(db, 400, <<>>)
        ELSE IF ~create_session_ok(made.sessions, name)
        THEN Result(made, 500, <<Call("create_session", name)>>)
        ELSE IF ~send_keys_ok(created.sessions, name)
        THEN Result(created, 500, <<Call("create_session", name),
                                    Call("send_keys", name)>>)
        ELSE Result([created EXCEPT
                       !.instances = Put(@, NewId(DOMAIN @),
                                         new_instance(db, u, p)),
                       !.projects[p].status = "running"],
                    200,
                    <<Call("create_session", name), Call("send_keys", name)>>)

\* stop_project killing the session only of a project it believes running
stop_project_kills_if_running(db, u, p) ==
    IF ~project_found(db, u, p) THEN Result(db, 404, <<>>)
    ELSE
    LET project == db.projects[p]
        kill == project.status = "running"
    IN  Result([db EXCEPT
                  !.sessions = IF kill THEN kill_session(@, project.tmux_session)
                               ELSE @,
                  !.instances = stop_instances(db, p),
                  !.projects[p].status = "paused"],
               200,
               IF kill THEN <<Call("kill_session", project.tmux_session)>>
               ELSE <<>>)

\* stop_project without the loop over the running rows
stop_project_keeps_rows(db, u, p) ==
    IF ~project_found(db, u, p) THEN Result(db, 404, <<>>)
    ELSE
    LET project == db.projects[p]
        kill == project.tmux_session # <<>>
    IN  Result([db EXCEPT
                  !.sessions = IF kill THEN kill_session(@, project.tmux_session)
                               ELSE @,
                  !.projects[p].status = "paused"],
               200,
               IF kill THEN <<Call("kill_session", project.tmux_session)>>
               ELSE <<>>)

\* POST /projects/{project_id}/stop
stop_project(db, u, p) ==
    IF ~project_found(db, u, p) THEN Result(db, 404, <<>>)
    ELSE
    LET project == db.projects[p]
        kill == project.tmux_session # <<>>
    IN  Result([db EXCEPT
                  !.sessions = IF kill THEN kill_session(@, project.tmux_session)
                               ELSE @,
                  !.instances = stop_instances(db, p),
                  !.projects[p].status = "paused"],
               200,
               IF kill THEN <<Call("kill_session", project.tmux_session)>>
               ELSE <<>>)

\* restart_project killing the session only of a project it believes
\* running
restart_project_kills_if_running(db, u, p) ==
    IF ~project_found(db, u, p) THEN Result(db, 404, <<>>)
    ELSE
    LET project == db.projects[p]
        name == project.tmux_session
        kill == project.status = "running"
        kills == IF kill THEN <<Call("kill_session", name)>> ELSE <<>>
        killed == [db EXCEPT
                     !.sessions = IF kill THEN kill_session(@, name) ELSE @,
                     !.dirs = @ \cup {project.workspace_path}]
        created == [killed EXCEPT !.sessions = create_session(@, name)]
        stopped == stop_instances(db, p)
    IN  IF ~create_session_ok(killed.sessions, name)
        THEN Result(killed, 500, kills \o <<Call("create_session", name)>>)
        ELSE Result([created EXCEPT
                       !.instances = Put(stopped, NewId(DOMAIN stopped),
                                         new_instance(db, u, p)),
                       !.projects[p].status = "running"],
                    200,
                    kills \o <<Call("create_session", name),
                               Call("send_keys", name)>>)

\* restart_project without the loop that stops the running rows
restart_project_keeps_rows(db, u, p) ==
    IF ~project_found(db, u, p) THEN Result(db, 404, <<>>)
    ELSE
    LET project == db.projects[p]
        name == project.tmux_session
        killed == [db EXCEPT
                     !.sessions = kill_session(@, name),
                     !.dirs = @ \cup {project.workspace_path}]
        created == [killed EXCEPT !.sessions = create_session(@, name)]
    IN  Result([created EXCEPT
                  !.instances = Put(@, NewId(DOMAIN @),
                                    new_instance(db, u, p)),
                  !.projects[p].status = "running"],
               200,
               <<Call("kill_session", name), Call("create_session", name),
                 Call("send_keys", name)>>)

\* POST /projects/{project_id}/restart, the multiplexer failing the
\* command fault: the rows stopped in the loop are not committed
restart_project_on(db, u, p, fault) ==
    IF ~project_found(db, u, p) THEN Result(db, 404, <<>>)
    ELSE
    LET project == db.projects[p]
        name == project.tmux_session
        kill == name # <<>>
        kills == IF kill THEN <<Call("kill_session", name)>> ELSE <<>>
        killed == [db EXCEPT
                     !.sessions = IF kill THEN kill_session(@, name) ELSE @,
                     !.dirs = @ \cup {project.workspace_path}]
        new == run_on(killed.sessions, "new-session", name, fault)
        created == [killed EXCEPT !.sessions = new.sessions]
        sent == run_on(created.sessions, "send-keys", name, fault)
        stopped == stop_instances(db, p)
    IN  IF new.raised
        THEN Result(killed, 500, kills \o <<Call("create_session", name)>>)
        ELSE IF sent.raised
        THEN Result([created EXCEPT !.sessions = sent.sessions], 500,
                    kills \o <<Call("create_session", name),
                               Call("send_keys", name)>>)
        ELSE Result([created EXCEPT
                       !.instances = Put(stopped, NewId(DOMAIN stopped),
                                         new_instance(db, u, p)),
                       !.projects[p].status = "running"],
                    200,
                    kills \o <<Call("create_session", name),
                               Call("send_keys", name)>>)

\* POST /projects/{project_id}/restart
restart_project(db, u, p) ==
    IF ~project_found(db, u, p) THEN Result(db, 404, <<>>)
    ELSE
    LET project == db.projects[p]
        name == project.tmux_session
        kill == name # <<>>
        kills == IF kill THEN <<Call("kill_session", name)>> ELSE <<>>
        killed == [db EXCEPT
                     !.sessions = IF kill THEN kill_session(@, name) ELSE @,
                     !.dirs = @ \cup {project.workspace_path}]
        created == [killed EXCEPT !.sessions = create_session(@, name)]
        stopped == stop_instances(db, p)
    IN  IF ~create_session_ok(killed.sessions, name)
        THEN Result(killed, 500, kills \o <<Call("create_session", name)>>)
        ELSE IF ~send_keys_ok(created.sessions, name)
        THEN Result(created, 500, kills \o <<Call("create_session", name),
                                             Call("send_keys", name)>>)
        ELSE Result([created EXCEPT
                       !.instances = Put(stopped, NewId(DOMAIN stopped),
                                         new_instance(db, u, p)),
                       !.projects[p].status = "running"],
                    200,
                    kills \o <<Call("create_session", name),
                               Call("send_keys", name)>>)

\* ------------------------------------------------------ research sessions
\* _get_session_or_404
session_found(db, u, sid) ==
    sid \in DOMAIN db.research /\ db.research[sid].user_id = u

\* ChatMessage(session_type="research", ...)
research_message(u, sid, role, content) ==
    [user_id |-> u, session_type |-> "research", session_id |-> sid,
     role |-> role, content |-> content]

IsResearchMessageOf(m, sid) ==
    m.session_type = "research" /\ m.session_id = sid

\* task = _running_tasks.get(id); if task and not task.done():
\*     task.cancel(); _running_tasks.pop(id, None)
\* A task cancelled before its first step never runs its body; one
\* cancelled while it awaits the CLI gets CancelledError at the await.
cancel_running_task(db, sid) ==
    IF sid \in DOMAIN db.running_tasks /\ db.running_tasks[sid] \in DOMAIN db.tasks
    THEN LET t == db.running_tasks[sid]
         IN  [db EXCEPT
                !.tasks = IF @[t].phase = "created" THEN Drop(@, {t})
                          ELSE [@ EXCEPT ![t].cancelled = TRUE],
                !.running_tasks = Drop(@, {sid})]
    ELSE db

\* POST /agents/{agent_id}/research
create_research_session(db, u, ag, name) ==
    LET slug == generate_slug(name)
        id == NewId(DOMAIN db.research)
        row == [user_id |-> u, agent_id |-> ag, slug |-> slug,
                status |-> "idle", tmux_session |-> <<>>,
                workspace_path |-> research_workspace(u, slug)]
    IN  IF agent_owner(ag) # u THEN Result(db, 404, <<>>)
        ELSE IF slug = <<>> THEN Result(db, 400, <<>>)
        ELSE Result([db EXCEPT
                       !.dirs = @ \cup {row.workspace_path},
                       !.files = @ \cup {File(row.workspace_path, "CLAUDE.md")},
                       !.research = Put(@, id, row)],
                    201, <<>>)

\* GET /research/{session_id}
get_research_session(db, u, sid) ==
    IF ~session_found(db, u, sid) THEN Result(db, 404, <<>>)
    ELSE Result(db, 200, <<>>)

\* delete_research_session without the deletion of the transcript
delete_research_session_keeps_messages(db, u, sid) ==
    IF ~session_found(db, u, sid) THEN Result(db, 404, <<>>)
    ELSE Result([rmtree(cancel_running_task(db, sid),
                        db.research[sid].workspace_path) EXCEPT
                   !.research = Drop(@, {sid})],
                200, <<>>)

\* DELETE /research/{session_id}
delete_research_session(db, u, sid) ==
    IF ~session_found(db, u, sid) THEN Result(db, 404, <<>>)
    ELSE
    LET cancelled == cancel_running_task(db, sid)
        keep(m) == ~IsResearchMessageOf(m, sid)
    IN  Result([rmtree(cancelled, db.research[sid].workspace_path) EXCEPT
                  !.messages = SelectSeq(@, keep),
                  !.research = Drop(@, {sid})],
               200, <<>>)

\* send_message launching the task without storing the user's message
send_message_unsaved(db, u, sid) ==
    IF ~session_found(db, u, sid) THEN Result(db, 404, <<>>)
    ELSE
    LET t == NewId(DOMAIN db.tasks)
        task == [session_id |-> sid, user_id |-> u, phase |-> "created",
                 cancelled |-> FALSE]
    IN  Result([db EXCEPT
                  !.research[sid].status = "thinking",
                  !.tasks = Put(@, t, task),
                  !.running_tasks = Put(@, sid, t)],
               201, <<>>)

\* POST /research/{session_id}/message
send_message(db, u, sid) ==
    IF ~session_found(db, u, sid) THEN Result(db, 404, <<>>)
    ELSE
    LET t == NewId(DOMAIN db.tasks)
        task == [session_id |-> sid, user_id |-> u, phase |-> "created",
                 cancelled |-> FALSE]
    IN  Result([db EXCEPT
                  !.messages = Append(@, research_message(u, sid, "user", "msg")),
                  !.research[sid].status = "thinking",
                  !.tasks = Put(@, t, task),
                  !.running_tasks = Put(@, sid, t)],
               201, <<>>)

\* POST /research/{session_id}/cancel
cancel_research(db, u, sid) ==
    IF ~session_found(db, u, sid) THEN Result(db, 404, <<>>)
    ELSE Result([cancel_running_task(db, sid) EXCEPT
                   !.research[sid].status = "idle"],
                200, <<>>)

\* the finally block of _process_claude_response
process_finally(db, t) ==
    LET sid == db.tasks[t].session_id
    IN  [db EXCEPT
           !.research = IF sid \in DOMAIN @
                        THEN [@ EXCEPT ![sid].status = "idle"] ELSE @,
           !.running_tasks = Drop(@, {sid}),
           !.tasks = Drop(@, {t})]

\* _process_claude_response without the except clause: a failure of the
\* CLI reaches the finally block and nothing is recorded
process_claude_response_uncaught(db, t, failed) ==
    LET task == db.tasks[t]
        added == [db EXCEPT !.messages =
                    Append(@, research_message(task.user_id, task.session_id,
                                               "assistant", "response"))]
    IN  process_finally(IF failed THEN db ELSE added, t)

\* _process_claude_response from the return of run_claude_message on:
\* the CLI's answer, or "Error: ..." when run_claude_message raised
process_claude_response(db, t, failed) ==
    LET task == db.tasks[t]
        content == IF failed THEN "Error: " ELSE "response"
        added == [db EXCEPT !.messages =
                    Append(@, research_message(task.user_id, task.session_id,
                                               "assistant", content))]
    IN  process_finally(added, t)

\* the model's bounds on the tables and the tasks
Bounded(db) ==
    /\ DOMAIN db.projects \subseteq 1..MaxProjects
    /\ DOMAIN db.instances \subseteq 1..MaxInstances
    /\ DOMAIN db.research \subseteq 1..MaxResearch
    /\ DOMAIN db.tasks \subseteq 1..MaxTasks
    /\ Len(db.messages) + Cardinality(DOMAIN db.tasks) <= MaxMessages

\* the state after a step whose result is db
Becomes(db) ==
    /\ Bounded(db)
    /\ projects' = db.projects
    /\ instances' = db.instances
    /\ research' = db.research
    /\ messages' = db.messages
    /\ sessions' = db.sessions
    /\ dirs' = db.dirs
    /\ files' = db.files
    /\ tasks' = db.tasks
    /\ running_tasks' = db.running_tasks
    /\ UNCHANGED <<connections, loop>>

\* a request: the handler's result becomes the next state
Handle(op, u, id, name, was, r) ==
    /\ Becomes(r.db)
    /\ last' = Request(op, u, id, name, was, r.code, r.calls)

ProjectIds == 1..MaxProjects

CreateProjectNamed(names) ==
    \E u \in Users, ag \in Agents, name \in names :
        Handle("create_project", u, ag, name, "",
               create_project(Db, u, ag, name))

CreateProject == CreateProjectNamed(SampleNames)

DeleteProject ==
    \E u \in Users, p \in ProjectIds :
        Handle("delete_project", u, p, <<>>, StatusIn(projects, p),
               delete_project(Db, u, p))

StartProject ==
    \E u \in Users, p \in ProjectIds :
        Handle("start_project", u, p, <<>>, StatusIn(projects, p),
               start_project(Db, u, p))

StopProject ==
    \E u \in Users, p \in ProjectIds :
        Handle("stop_project", u, p, <<>>, StatusIn(projects, p),
               stop_project(Db, u, p))

RestartProject ==
    \E u \in Users, p \in ProjectIds :
        Handle("restart_project", u, p, <<>>, StatusIn(projects, p),
               restart_project(Db, u, p))

\* a start and a restart request that the multiplexer fails
StartProjectFailing ==
    \E u \in Users, p \in ProjectIds, fault \in Faults \ {"none"} :
        Handle("start_project", u, p, <<>>, StatusIn(projects, p),
               start_project_on(Db, u, p, fault))

RestartProjectFailing ==
    \E u \in Users, p \in ProjectIds, fault \in Faults \ {"none"} :
        Handle("restart_project", u, p, <<>>, StatusIn(projects, p),
               restart_project_on(Db, u, p, fault))

GetProject ==
    \E u \in Users, p \in ProjectIds :
        Handle("get_project", u, p, <<>>, StatusIn(projects, p),
               get_project(Db, u, p))

UpdateProject ==
    \E u \in Users, p \in ProjectIds :
        Handle("update_project", u, p, <<>>, StatusIn(projects, p),
               update_project(Db, u, p))

ResearchIds == 1..MaxResearch

GetResearch ==
    \E u \in Users, sid \in ResearchIds :
        Handle("get_research_session", u, sid, <<>>,
               StatusIn(research, sid), get_research_session(Db, u, sid))

CreateResearchNamed(names) ==
    \E u \in Users, ag \in Agents, name \in names :
        Handle("create_research_session", u, ag, name, "",
               create_research_session(Db, u, ag, name))

CreateResearch == CreateResearchNamed(SampleNames)

DeleteResearch ==
    \E u \in Users, sid \in ResearchIds :
        Handle("delete_research_session", u, sid, <<>>,
               StatusIn(research, sid), delete_research_session(Db, u, sid))

SendMessage ==
    \E u \in Users, sid \in ResearchIds :
        Handle("send_message", u, sid, <<>>, StatusIn(research, sid),
               send_message(Db, u, sid))

CancelResearch ==
    \E u \in Users, sid \in ResearchIds :
        Handle("cancel_research", u, sid, <<>>, StatusIn(research, sid),
               cancel_research(Db, u, sid))

\* the event loop runs a new task up to its await of the CLI
TaskStart ==
    \E t \in DOMAIN tasks :
        /\ tasks[t].phase = "created"
        /\ tasks' = [tasks EXCEPT ![t].phase = "awaiting"]
        /\ UNCHANGED <<projects, instances, research, messages, sessions,
                       dirs, files, running_tasks, connections, loop, last>>

\* the CLI returns, with an answer or with a failure
TaskFinish ==
    \E t \in DOMAIN tasks, failed \in BOOLEAN :
        /\ tasks[t].phase = "awaiting"
        /\ ~tasks[t].cancelled
        /\ Becomes(process_claude_response(Db, t, failed))
        /\ last' = Request("task_finish", tasks[t].user_id,
                           tasks[t].session_id, <<>>,
                           StatusIn(research, tasks[t].session_id),
                           IF failed THEN 500 ELSE 200, <<>>)

\* a task cancelled at its await unwinds through the finally block
TaskCancelled ==
    \E t \in DOMAIN tasks :
        /\ tasks[t].phase = "awaiting"
        /\ tasks[t].cancelled
        /\ Becomes(process_finally(Db, t))
        /\ last' = Request("task_cancelled", tasks[t].user_id,
                           tasks[t].session_id, <<>>,
                           StatusIn(research, tasks[t].session_id), 0, <<>>)

\* ----------------------------------------------------- project_terminal
\* websocket.accept(); the project's session name, or close(4004)
terminal_open(db, p) ==
    IF p \in DOMAIN db.projects
    THEN [NoTerminal EXCEPT !.pc = "streaming", !.client = "connected",
                            !.tmux_session = db.projects[p].tmux_session]
    ELSE [NoTerminal EXCEPT !.pc = "closed"]

\* one pass of the loop that always sends what it captured
terminal_poll_undiffed(conn, sess, pane) ==
    IF session_exists(sess, conn.tmux_session)
    THEN LET output == capture_pane(sess, conn.tmux_session, pane)
             polled == [conn EXCEPT !.called =
                          @ \cup {"session_exists", "capture_pane"}]
         IN  IF conn.client = "gone" THEN [polled EXCEPT !.pc = "closed"]
             ELSE [polled EXCEPT !.sent = Append(@, output),
                                 !.last_output = output]
    ELSE [conn EXCEPT !.called = @ \cup {"session_exists"}]

\* one pass of the loop of project_terminal, the pane showing the text
\* pane: send_text raises WebSocketDisconnect once the peer is gone
terminal_poll(conn, sess, pane) ==
    IF session_exists(sess, conn.tmux_session)
    THEN LET output == capture_pane(sess, conn.tmux_session, pane)
             polled == [conn EXCEPT !.called =
                          @ \cup {"session_exists", "capture_pane"}]
         IN  IF output = conn.last_output THEN polled
             ELSE IF conn.client = "gone" THEN [polled EXCEPT !.pc = "closed"]
             ELSE [polled EXCEPT !.sent = Append(@, output),
                                 !.last_output = output]
    ELSE [conn EXCEPT !.called = @ \cup {"session_exists"}]

\* what the two tmux commands of a pass leave of the live sessions
polled_sessions(sess, name, pane) ==
    LET has == run_session_exists(sess, name)
    IN  IF has.returncode = 0
        THEN run_capture_pane(has.sessions, name, pane).sessions
        ELSE has.sessions

\* the connections and the store after a pass of the loop of connection c
Polled(conns, db) == [connections |-> conns, db |-> db]

\* a pass that ends the session when it finds the peer gone
poll_connection_cleaning(conns, c, db, pane) ==
    LET conn == terminal_poll(conns[c], db.sessions, pane)
        sess == polled_sessions(db.sessions, conns[c].tmux_session, pane)
    IN  Polled([conns EXCEPT ![c] = conn],
               [db EXCEPT !.sessions =
                  IF conn.pc = "closed"
                  THEN kill_session(sess, conns[c].tmux_session)
                  ELSE sess])

\* one pass of the loop of connection c: tmux_session and last_output
\* are locals of the handler's call
poll_connection(conns, c, db, pane) ==
    Polled([conns EXCEPT ![c] = terminal_poll(conns[c], db.sessions, pane)],
           [db EXCEPT !.sessions =
              polled_sessions(@, conns[c].tmux_session, pane)])

TerminalConnectOf(C) ==
    \E c \in C, p \in 1..MaxProjects :
        /\ connections[c].pc = "idle"
        /\ connections' = [connections EXCEPT ![c] = terminal_open(Db, p)]
        /\ UNCHANGED <<dbvars, loop, last>>

TerminalPollOf(C) ==
    \E c \in C, pane \in Texts :
        /\ connections[c].pc = "streaming"
        /\ LET r == poll_connection(connections, c, Db, pane)
           IN  /\ connections' = r.connections
               /\ sessions' = r.db.sessions
               /\ projects' = r.db.projects
        /\ Len(connections'[c].sent) <= MaxSent
        /\ UNCHANGED <<instances, research, messages, dirs, files, tasks,
                       running_tasks, loop, last>>

\* the client of connection c goes away
TerminalDisconnectOf(C) ==
    \E c \in C :
        /\ connections[c].pc = "streaming"
        /\ connections[c].client = "connected"
        /\ connections' = [connections EXCEPT ![c].client = "gone"]
        /\ UNCHANGED <<dbvars, loop, last>>

TerminalConnect == TerminalConnectOf({1})

TerminalPoll == TerminalPollOf({1})

\* the client goes away
TerminalDisconnect == TerminalDisconnectOf({1})

\* ------------------------------------------------------ CodingAgentLoop
max_retries == 3
\* _monitor_until_done: timeout, the sleep between two captures and the
\* number of unchanged captures it puts up with
monitor_timeout == 300
monitor_sleep == 2
monitor_no_change == 150

IsSpace(c) == c \in {" ", "\n"}

RECURSIVE lstrip_space(_)
lstrip_space(s) ==
    IF s # <<>> /\ IsSpace(Head(s)) THEN lstrip_space(Tail(s)) ELSE s

RECURSIVE rstrip_space(_)
rstrip_space(s) ==
    IF s # <<>> /\ IsSpace(s[Len(s)])
    THEN rstrip_space(SubSeq(s, 1, Len(s) - 1)) ELSE s

\* str.strip()
strip_space(s) == rstrip_space(lstrip_space(s))

\* s.split("\n")[-1]
RECURSIVE last_line(_)
last_line(s) ==
    IF \E i \in 1..Len(s) : s[i] = "\n" THEN last_line(Tail(s)) ELSE s

\* the detector without the strip of the whole text
claude_code_waiting_for_input_unstripped(output) ==
    LET line == strip_space(last_line(output))
    IN  line # <<>> /\ line[Len(line)] \in {">", "u276f", "$"}

\* _claude_code_waiting_for_input; "u276f" stands for the prompt glyph
claude_code_waiting_for_input(output) ==
    LET line == strip_space(last_line(strip_space(output)))
    IN  line # <<>> /\ line[Len(line)] \in {">", "u276f", "$"}

\* _get_current_step: "For now return None (no steps)"
get_current_step(l) == None

\* _mark_step_done and _update_project_status: pass
mark_step_done(db, step) == db
update_project_status(db, p, status) == db

\* the loop and the store after a stretch of the task
Ran(l, db) == [loop |-> l, db |-> db]

\* CodingAgentLoop(project, ...) and start() up to the warm-up sleep
loop_start(db, p) ==
    [NoLoop EXCEPT !.pc = "warmup", !.project_id = p,
                   !.tmux_session = db.projects[p].tmux_session,
                   !.running = TRUE]

\* the head of the loop of start() with step the current step: the test
\* of running, no step left, or the prompt sent and monitoring begun;
\* send_keys raises when the session is not there
loop_iterate(l, db, step) ==
    IF ~l.running THEN Ran([l EXCEPT !.pc = "exited"], db)
    ELSE IF step = None
    THEN Ran([l EXCEPT !.pc = "exited", !.step = None,
                       !.status = "completed"],
             update_project_status(db, l.project_id, "completed"))
    ELSE IF ~send_keys_ok(db.sessions, l.tmux_session)
    THEN Ran([l EXCEPT !.pc = "raised", !.step = step,
                       !.prompts = @ + 1], db)
    ELSE Ran([l EXCEPT !.pc = "monitor", !.step = step, !.prompts = @ + 1,
                       !.elapsed = 0, !.output = <<>>,
                       !.last_output = <<>>,
                       !.no_change_count = 0, !.returned = ""], db)

\* the loop body marking the step done whatever the output looks like
loop_evaluate_marks_always(l, db, output) ==
    IF claude_code_waiting_for_input(output)
    THEN Ran([l EXCEPT !.pc = "top", !.error_count = 0, !.done = @ + 1],
             mark_step_done(db, l.step))
    ELSE IF l.error_count + 1 >= max_retries
    THEN Ran([l EXCEPT !.pc = "exited", !.error_count = @ + 1,
                       !.status = "failed"],
             update_project_status(db, l.project_id, "failed"))
    ELSE Ran([l EXCEPT !.pc = "top", !.error_count = @ + 1, !.done = @ + 1],
             mark_step_done(db, l.step))

\* the rest of the loop body of start(), output being what
\* _monitor_until_done returned
loop_evaluate(l, db, output) ==
    IF claude_code_waiting_for_input(output)
    THEN Ran([l EXCEPT !.pc = "top", !.error_count = 0, !.done = @ + 1],
             mark_step_done(db, l.step))
    ELSE IF l.error_count + 1 >= max_retries
    THEN Ran([l EXCEPT !.pc = "exited", !.error_count = @ + 1,
                       !.status = "failed"],
             update_project_status(db, l.project_id, "failed"))
    ELSE Ran([l EXCEPT !.pc = "top", !.error_count = @ + 1], db)

\* one pass of the loop of _monitor_until_done, from its test on, the
\* pane showing the text pane; when it returns, the loop body goes on
monitor_until_done(l, db, pane) ==
    LET output == capture_pane(db.sessions, l.tmux_session, pane)
    IN  IF ~(l.elapsed < monitor_timeout)
        THEN loop_evaluate([l EXCEPT !.returned = "timeout"], db, l.output)
        ELSE IF claude_code_waiting_for_input(output)
        THEN loop_evaluate([l EXCEPT !.returned = "idle",
                                     !.output = output], db, output)
        ELSE IF output = l.last_output
        THEN IF l.no_change_count + 1 > monitor_no_change
             THEN loop_evaluate([l EXCEPT !.returned = "stalled",
                                          !.output = output,
                                          !.no_change_count = @ + 1],
                                db, output)
             ELSE Ran([l EXCEPT !.no_change_count = @ + 1,
                                !.output = output,
                                !.elapsed = @ + monitor_sleep], db)
        ELSE Ran([l EXCEPT !.no_change_count = 0, !.output = output,
                           !.last_output = output,
                           !.elapsed = @ + monitor_sleep], db)

\* stop()
loop_stop(l) == [l EXCEPT !.running = FALSE, !.stopped = TRUE]

\* a stretch of the loop's task: the store and the loop move on
LoopRuns(r) ==
    /\ loop' = r.loop
    /\ projects' = r.db.projects
    /\ UNCHANGED <<instances, research, messages, sessions, dirs, files,
                   tasks, running_tasks, connections, last>>

LoopStart ==
    \E p \in DOMAIN projects :
        /\ loop.pc = "none"
        /\ LoopRuns(Ran(loop_start(Db, p), Db))

\* loop = CodingAgentLoop(project, ...); create_task(loop.start()): the
\* task exists and has not run yet
LoopCreate ==
    \E p \in DOMAIN projects :
        /\ loop.pc = "none"
        /\ LoopRuns(Ran([loop_start(Db, p) EXCEPT !.pc = "created",
                                                  !.running = FALSE], Db))

\* the first stretch of the task: self.running = True, then the sleep
LoopBegin ==
    /\ loop.pc = "created"
    /\ LoopRuns(Ran([loop EXCEPT !.pc = "warmup", !.running = TRUE], Db))

\* the warm-up sleep is over
LoopWake ==
    /\ loop.pc = "warmup"
    /\ LoopRuns(Ran([loop EXCEPT !.pc = "top"], Db))

LoopIterate ==
    /\ loop.pc = "top"
    /\ LoopRuns(loop_iterate(loop, Db, get_current_step(loop)))

\* the head of the loop with _get_current_step replaced by a double that
\* hands out a step, or None
LoopIterateOn ==
    \E step \in Steps \cup {None} :
        /\ loop.pc = "top"
        /\ LoopRuns(loop_iterate(loop, Db, step))
        /\ loop'.prompts <= MaxPrompts

\* a step source in place of _get_current_step: the plan has the steps
\* 1..MaxSteps, a step is pending until _mark_step_done was called for
\* it, and the source hands out the first pending step, None without one
next_pending_step(l) == IF l.done < MaxSteps THEN l.done + 1 ELSE None

\* the head of the loop with the steps of the plan handed out in order
LoopIterateInOrder ==
    /\ loop.pc = "top"
    /\ LoopRuns(loop_iterate(loop, Db, next_pending_step(loop)))

MonitorPollOn(texts) ==
    \E pane \in texts :
        /\ loop.pc = "monitor"
        /\ LoopRuns(monitor_until_done(loop, Db, pane))

MonitorPoll == MonitorPollOn(Texts)

LoopStop ==
    /\ loop.pc \in {"warmup", "top", "monitor"}
    /\ loop.running
    /\ LoopRuns(Ran(loop_stop(loop), Db))

\* stop() on a loop whose task has not run yet
LoopStopEarly ==
    /\ loop.pc = "created"
    /\ ~loop.stopped
    /\ LoopRuns(Ran(loop_stop(loop), Db))

\* the request of this step names a context its user has: a request
\* answered 404 leaves the store as it is, and NextAccess has those
Served == last'.code # 404

NextProjects ==
    \/ CreateProject /\ Served
    \/ DeleteProject /\ Served
    \/ StartProject /\ Served
    \/ StopProject /\ Served
    \/ RestartProject /\ Served

\* one research session at a time, deleted and created again, with its
\* messages and tasks; sessions side by side are NextContexts' and
\* NextAccess's
NextResearch ==
    \/ research = <<>> /\ CreateResearch
    \/ DeleteResearch
    \/ SendMessage
    \/ CancelResearch
    \/ TaskStart
    \/ TaskFinish
    \/ TaskCancelled

\* no project, no research session and nothing left of one
NoProjects == projects = <<>> /\ instances = <<>> /\ sessions = {}
NoResearch == research = <<>> /\ messages = <<>> /\ tasks = <<>>

\* creation and deletion of work contexts, with what gives a context a
\* live session, child rows and a transcript.  The two kinds of context
\* share no table, task or session and use different directories; they
\* are explored one kind at a time.
NextContexts ==
    \/ NoResearch /\ CreateProject /\ Served
    \/ NoResearch /\ StartProject /\ Served
    \/ NoResearch /\ DeleteProject /\ Served
    \/ NoProjects /\ CreateResearch /\ Served
    \/ NoProjects /\ SendMessage /\ Served
    \/ NoProjects /\ TaskStart
    \/ NoProjects /\ TaskFinish
    \/ NoProjects /\ TaskCancelled
    \/ NoProjects /\ DeleteResearch /\ Served

\* a create request on the empty store, under every name of the bounded
\* alphabet
NextSlug ==
    \/ NoProjects /\ NoResearch /\ CreateProjectNamed(Names)
    \/ NoProjects /\ NoResearch /\ CreateResearchNamed(Names)

\* one streaming connection to the one project there is, which is
\* started and stopped while the connection polls
NextTerminal ==
    \/ NoProjects /\ projects = <<>> /\ CreateProject
    \/ StartProject
    \/ StopProject
    \/ TerminalConnect
    \/ TerminalPoll
    \/ TerminalDisconnect

\* the work loop as the code has it, on the projects there are
NextLoop ==
    \/ CreateProject
    \/ StartProject
    \/ LoopStart
    \/ LoopWake
    \/ LoopIterate
    \/ LoopStop

\* the work loop on the one project there is, launched when the project
\* has just been created or started, with steps handed to it
NextWorkSteps ==
    \/ NoProjects /\ projects = <<>> /\ CreateProject
    \/ loop.pc = "none" /\ StartProject
    \/ last.code \in {200, 201} /\ LoopStart
    \/ LoopWake
    \/ LoopIterateOn
    \/ MonitorPoll

\* the lifecycle of one user's projects with a multiplexer that can fail
\* a start or a restart
NextFaults ==
    \/ CreateProject /\ Served
    \/ StartProject /\ Served
    \/ StopProject /\ Served
    \/ RestartProject /\ Served
    \/ StartProjectFailing /\ Served
    \/ RestartProjectFailing /\ Served

\* the work loop on a plan of MaxSteps steps, the pane showing output or
\* a prompt at every capture
NextSteps ==
    \/ NoProjects /\ projects = <<>> /\ CreateProject /\ Served
    \/ loop.pc = "none" /\ StartProject /\ Served
    \/ last.code \in {200, 201} /\ LoopStart
    \/ LoopWake
    \/ LoopIterateInOrder
    \/ MonitorPollOn({<<"x">>, <<"$">>})

\* the work loop on a plan of MaxSteps steps, stopped at any moment after
\* its task was created
NextStop ==
    \/ NoProjects /\ projects = <<>> /\ CreateProject /\ Served
    \/ loop.pc = "none" /\ StartProject /\ Served
    \/ last.code = 200 /\ LoopCreate
    \/ LoopBegin
    \/ LoopWake
    \/ LoopIterateInOrder
    \/ MonitorPollOn({<<"x">>, <<"$">>})
    \/ LoopStop
    \/ LoopStopEarly

\* start, stop, restart and update requests on the projects there are,
\* with a multiplexer that can fail a start or a restart
NextRows ==
    \/ CreateProject /\ Served
    \/ StartProject /\ Served
    \/ StopProject /\ Served
    \/ RestartProject /\ Served
    \/ UpdateProject /\ Served
    \/ StartProjectFailing /\ Served
    \/ RestartProjectFailing /\ Served

\* the connections to the one project there is, which is started and
\* stopped while they poll
NextStream ==
    \/ NoProjects /\ projects = <<>> /\ CreateProject /\ Served
    \/ StartProject /\ Served
    \/ StopProject /\ Served
    \/ TerminalConnectOf(Connections)
    \/ TerminalPollOf(Connections)
    \/ TerminalDisconnectOf(Connections)

\* the first capture of every monitoring, the pane showing any text of
\* the bounded alphabet
NextDetector ==
    \/ NoProjects /\ projects = <<>> /\ CreateProject /\ Served
    \/ loop.pc = "none" /\ StartProject /\ Served
    \/ last.code = 200 /\ LoopStart
    \/ LoopWake
    \/ LoopIterateOn
    \/ loop.elapsed = 0 /\ MonitorPollOn(PaneTexts)

\* requests on the contexts of the two users, one kind of context at a
\* time: projects that are created, started, read, updated and deleted,
\* research sessions that are created, written to, read and deleted
NextAccess ==
    \/ NoResearch /\ CreateProject
    \/ NoResearch /\ StartProject
    \/ NoResearch /\ GetProject
    \/ NoResearch /\ UpdateProject
    \/ NoResearch /\ DeleteProject
    \/ NoProjects /\ CreateResearch
    \/ NoProjects /\ SendMessage
    \/ NoProjects /\ GetResearch
    \/ NoProjects /\ DeleteResearch

Next ==
    \/ NextProjects
    \/ NextResearch
    \/ NextTerminal
    \/ NextLoop
    \/ NextAccess
    \/ NextDetector
    \/ NextFaults
    \/ NextSteps
    \/ NextStop
    \/ NextRows
    \/ NextStream

Spec == Init /\ [][Next]_vars
SpecProjects == Init /\ [][NextProjects]_vars
SpecResearch == Init /\ [][NextResearch]_vars
SpecContexts == Init /\ [][NextContexts]_vars
SpecSlug == Init /\ [][NextSlug]_vars
SpecTerminal == Init /\ [][NextTerminal]_vars
SpecLoop == Init /\ [][NextLoop]_vars
SpecAccess == Init /\ [][NextAccess]_vars
SpecWorkSteps == Init /\ [][NextWorkSteps]_vars
SpecDetector == Init /\ [][NextDetector]_vars
SpecFaults == Init /\ [][NextFaults]_vars
SpecSteps == Init /\ [][NextSteps]_vars
SpecStop == Init /\ [][NextStop]_vars
SpecRows == Init /\ [][NextRows]_vars
SpecStream == Init /\ [][NextStream]_vars

\* ================================================================ claims
ProjectRequests == Users \X ProjectIds
Found(u, p) == project_found(Db, u, p)
SessionOf(p) == projects[p].tmux_session

\* C1: start_project on a project whose status is "running" answers 400
\* and changes nothing: status, agent_instances and the live sessions stay
\* as they are and no multiplexer call is made.
C1_StartRunningRejected ==
    \A <<u, p>> \in ProjectRequests :
        (Found(u, p) /\ projects[p].status = "running") =>
            start_project(Db, u, p) = Result(Db, 400, <<>>)

C1_Witness ==
    /\ last.op = "start_project"
    /\ last.was = "running"
    /\ last.code = 400
    /\ last.calls = <<>>
    /\ projects[last.id].status = "running"

\* C2: start_project on a project whose status is not "running" calls
\* create_session once and then send_keys once on the project's session,
\* adds exactly one agent_instances row (running, started_at set) for the
\* project and sets the project's status to "running".
C2_StartStarts ==
    \A <<u, p>> \in ProjectRequests :
        (Found(u, p) /\ projects[p].status # "running") =>
            LET r == start_project(Db, u, p)
                new == DOMAIN r.db.instances \ DOMAIN instances
            IN  /\ r.code = 200
                /\ r.calls = <<Call("create_session", SessionOf(p)),
                               Call("send_keys", SessionOf(p))>>
                /\ r.db.projects[p].status = "running"
                /\ Cardinality(new) = 1
                /\ \A i \in new :
                      /\ r.db.instances[i].project_id = p
                      /\ r.db.instances[i].status = "running"
                      /\ r.db.instances[i].started_at > 0
                /\ \A i \in DOMAIN instances :
                      r.db.instances[i] = instances[i]

\* C3: stop_project, from any status, calls kill_session on the project's
\* session; afterwards the status is "paused", no row of the project is
\* running, every row that was running is stopped with stopped_at set, and
\* every other row is untouched.
C3_StopStops ==
    \A <<u, p>> \in ProjectRequests :
        Found(u, p) =>
            LET r == stop_project(Db, u, p)
                was == running_instances_of(Db, p)
            IN  /\ r.code = 200
                /\ r.calls = <<Call("kill_session", SessionOf(p))>>
                /\ SessionOf(p) \notin r.db.sessions
                /\ r.db.projects[p].status = "paused"
                /\ running_instances_of(r.db, p) = {}
                /\ DOMAIN r.db.instances = DOMAIN instances
                /\ \A i \in was :
                      /\ r.db.instances[i].status = "stopped"
                      /\ r.db.instances[i].stopped_at > 0
                /\ \A i \in DOMAIN instances \ was :
                      r.db.instances[i] = instances[i]

\* a running project with an older, stopped row has just been stopped
C3_Witness ==
    /\ last.op = "stop_project"
    /\ last.was = "running"
    /\ last.code = 200
    /\ projects[last.id].status = "paused"
    /\ Cardinality(instances_of(Db, last.id)) > 1
    /\ running_instances_of(Db, last.id) = {}

\* C4: a second stop_project right after a first one succeeds and leaves
\* the project's status, every agent_instances row (stopped_at included)
\* and the live sessions as the first stop left them.
C4_StopIdempotent ==
    \A <<u, p>> \in ProjectRequests :
        Found(u, p) =>
            LET first == stop_project(Db, u, p)
                second == stop_project(first.db, u, p)
            IN  /\ second.code = 200
                /\ second.db.projects[p].status = first.db.projects[p].status
                /\ second.db.instances = first.db.instances
                /\ second.db.sessions = first.db.sessions

C4_Witness ==
    /\ last.op = "stop_project"
    /\ last.code = 200
    /\ last.again
    /\ \E i \in instances_of(Db, last.id) : instances[i].status = "stopped"

\* kill_session, create_session and send_keys on name occur in calls in
\* this order
KillCreateSend(calls, name) ==
    \E i, j, k \in 1..Len(calls) :
        /\ i < j /\ j < k
        /\ calls[i] = Call("kill_session", name)
        /\ calls[j] = Call("create_session", name)
        /\ calls[k] = Call("send_keys", name)

\* C5: restart_project, from any status, ends with status "running" and
\* makes a kill_session, a create_session and a send_keys call on the
\* project's session, in this order.
C5_RestartRuns ==
    \A <<u, p>> \in ProjectRequests :
        Found(u, p) =>
            LET r == restart_project(Db, u, p)
            IN  /\ r.code = 200
                /\ r.db.projects[p].status = "running"
                /\ KillCreateSend(r.calls, SessionOf(p))

\* a restart of a project that had been stopped
C5_Witness ==
    /\ last.op = "restart_project"
    /\ last.was = "paused"
    /\ last.code = 200
    /\ KillCreateSend(last.calls, SessionOf(last.id))
    /\ projects[last.id].status = "running"

\* a table of agent_instances with its timestamps reduced to set / not set
Untimed(table) ==
    [i \in DOMAIN table |->
        [table[i] EXCEPT !.started_at = IF @ > 0 THEN 1 ELSE 0,
                         !.stopped_at = IF @ > 0 THEN 1 ELSE 0]]

\* C6: from every state restart_project does what stop_project followed by
\* start_project does: the same multiplexer calls in the same order, the
\* same response, the same projects rows and live sessions, and the same
\* agent_instances rows apart from the values of the timestamps.
C6_RestartIsStopStart ==
    \A <<u, p>> \in ProjectRequests :
        LET r == restart_project(Db, u, p)
            stopped == stop_project(Db, u, p)
            started == start_project(stopped.db, u, p)
        IN  /\ r.calls = stopped.calls \o started.calls
            /\ r.code = started.code
            /\ r.db.projects = started.db.projects
            /\ r.db.sessions = started.db.sessions
            /\ Untimed(r.db.instances) = Untimed(started.db.instances)

\* a restart of a running project: its row is stopped and a new one runs
C6_Witness ==
    /\ last.op = "restart_project"
    /\ last.was = "running"
    /\ last.code = 200
    /\ \E i, j \in instances_of(Db, last.id) :
          /\ instances[i].status = "stopped"
          /\ instances[j].status = "running"

\* --------------------------------------------------------- work contexts
ResearchRequests == Users \X ResearchIds
Contexts ==
    {<<"project", p>> : p \in DOMAIN projects}
        \cup {<<"research", sid>> : sid \in DOMAIN research}
ContextRow(c) == IF c[1] = "project" THEN projects[c[2]] ELSE research[c[2]]

\* db holds no trace of the context (type, id) whose workspace was ws
Gone(db, type, id, ws) ==
    /\ ws \notin db.dirs
    /\ \A f \in db.files : f.dir # ws
    /\ id \notin DOMAIN (IF type = "project" THEN db.projects ELSE db.research)
    /\ \A i \in 1..Len(db.messages) :
          ~(db.messages[i].session_type = type /\ db.messages[i].session_id = id)
    /\ type = "project" => instances_of(db, id) = {}

\* C7: when delete_project or delete_research_session returns, the
\* context's workspace directory does not exist, its row is gone and no
\* chat_messages row of its (type, id) pair and no agent_instances row of
\* it remains, with or without a live multiplexer session.
C7_DeleteRemoves ==
    /\ \A <<u, p>> \in ProjectRequests :
          Found(u, p) =>
              LET r == delete_project(Db, u, p)
              IN  r.code = 200
                  /\ Gone(r.db, "project", p, projects[p].workspace_path)
    /\ \A <<u, sid>> \in ResearchRequests :
          session_found(Db, u, sid) =>
              LET r == delete_research_session(Db, u, sid)
              IN  r.code = 200
                  /\ Gone(r.db, "research", sid, research[sid].workspace_path)

\* a research session has just been deleted in the middle of an exchange,
\* its task cancelled at the await
C7_Witness ==
    /\ last.op = "delete_research_session"
    /\ last.was = "thinking"
    /\ last.code = 200
    /\ \E t \in DOMAIN tasks :
          tasks[t].cancelled /\ tasks[t].session_id = last.id
    /\ Gone(Db, "research", last.id, research_workspace(last.user, <<"a">>))

\* C8: any two distinct work contexts that exist have different
\* multiplexer session names.
C8_SessionNamesUnique ==
    \A c1, c2 \in Contexts :
        c1 # c2 => ContextRow(c1).tmux_session # ContextRow(c2).tmux_session

\* C9: no two work contexts that exist record the same workspace_path, and
\* deleting a project removes no directory that is the workspace of
\* another context that exists.
C9_WorkspacesUnique ==
    /\ \A c1, c2 \in Contexts :
          c1 # c2 => ContextRow(c1).workspace_path # ContextRow(c2).workspace_path
    /\ \A <<u, p>> \in ProjectRequests :
          Found(u, p) =>
              \A c \in Contexts \ {<<"project", p>>} :
                  ContextRow(c).workspace_path \in dirs =>
                      ContextRow(c).workspace_path
                          \in delete_project(Db, u, p).db.dirs

\* ------------------------------------------------------------------ slugs
IsPunctuation(c) == c \in {"-", "!"}
PunctuationNames ==
    {n \in Names : n # <<>> /\ \A i \in 1..Len(n) : IsPunctuation(n[i])}

TriedNames == {<<"a">>, <<"A">>, <<"a", " ">>, <<"-", "A">>, <<"!", "a">>}

Starts(calls) ==
    \E i \in 1..Len(calls) : calls[i].fn \in {"create_session", "send_keys"}

\* C11: create_project with a name whose slug is not empty answers 201
\* with no multiplexer call; the live sessions and the agent_instances
\* rows stay as they are, the workspace directory exists with
\* .claude/CLAUDE.md and .nanobot/IDENTITY.md in it, and the one new row
\* has status "created".  A session is created and keystrokes are sent
\* only by a start or a restart request.
C11_CreateStartsNothing ==
    /\ \A u \in Users, name \in TriedNames :
          generate_slug(name) # <<>> =>
              LET r == create_project(Db, u, u, name)
                  ws == project_workspace(u, generate_slug(name))
                  new == DOMAIN r.db.projects \ DOMAIN projects
              IN  /\ r.code = 201
                  /\ r.calls = <<>>
                  /\ r.db.sessions = sessions
                  /\ r.db.instances = instances
                  /\ ws \in r.db.dirs
                  /\ File(ws, ".claude/CLAUDE.md") \in r.db.files
                  /\ File(ws, ".nanobot/IDENTITY.md") \in r.db.files
                  /\ Cardinality(new) = 1
                  /\ \A p \in new :
                        /\ r.db.projects[p].status = "created"
                        /\ r.db.projects[p].workspace_path = ws
                  /\ \A p \in DOMAIN projects :
                        r.db.projects[p] = projects[p]
    /\ Starts(last.calls) => last.op \in {"start_project", "restart_project"}

\* a project has just been created while another user's project runs: the
\* new one has its files, status "created" and no live session
C11_Witness ==
    /\ last.op = "create_project"
    /\ last.code = 201
    /\ last.calls = <<>>
    /\ sessions # {}
    /\ \E p \in DOMAIN projects :
          /\ projects[p].user_id = last.user
          /\ projects[p].status = "created"
          /\ projects[p].tmux_session \notin sessions
          /\ File(projects[p].workspace_path, ".nanobot/IDENTITY.md") \in files

\* ------------------------------------------------------ streaming bridge
\* the last text sent on the connection, the empty text before the first
LastSent(conn) ==
    IF conn.sent = <<>> THEN <<>> ELSE conn.sent[Len(conn.sent)]

\* C12: on the streaming connection a poll appends exactly one message,
\* the captured text, when the session exists and the text differs from
\* the last text sent (the empty text before the first), and sends
\* nothing otherwise; a capture equal to the one before it sends nothing,
\* one that differs sends exactly one message, and no message equals the
\* message before it.
C12_SendsOnChange ==
    /\ terminal.last_output = LastSent(terminal)
    /\ \A i \in 1..Len(terminal.sent) - 1 :
          terminal.sent[i] # terminal.sent[i + 1]
    /\ (terminal.pc = "streaming" /\ terminal.client = "connected") =>
          \A a, b \in Texts :
              LET exists == session_exists(sessions, terminal.tmux_session)
                  first == terminal_poll(terminal, sessions, a)
                  second == terminal_poll(first, sessions, b)
              IN  /\ first.sent =
                        IF exists /\ a # LastSent(terminal)
                        THEN Append(terminal.sent, a) ELSE terminal.sent
                  /\ exists =>
                        second.sent = IF a = b THEN first.sent
                                      ELSE Append(first.sent, b)

\* the connection has sent two texts and the project, stopped once, has
\* just been started again under it
C12_Witness ==
    /\ terminal.pc = "streaming"
    /\ terminal.client = "connected"
    /\ Len(terminal.sent) = 2
    /\ session_exists(sessions, terminal.tmux_session)
    /\ last.op = "start_project"
    /\ last.code = 200
    /\ \E i \in DOMAIN instances : instances[i].status = "stopped"

\* --------------------------------------------------------- the work loop
\* C13: a loop that found no step to do has exited, has sent no
\* keystrokes, and its project's status is "completed".
C13_NoStepsCompletes ==
    (loop.pc = "exited" /\ loop.status = "completed") =>
        /\ loop.prompts = 0
        /\ StatusIn(projects, loop.project_id) = "completed"

PaneNeverChanged ==
    loop.no_change_count * monitor_sleep >= loop.elapsed - monitor_sleep

\* C15: _monitor_until_done returns on an idle-looking capture, or on a
\* capture that makes more than monitor_no_change unchanged ones in a row
\* while the timeout has not elapsed, or when the timeout has elapsed
\* with fewer unchanged captures than that; and when the pane never
\* changed and never looked idle it returns by the second rule, before
\* the timeout has elapsed.
C15_StallBeforeTimeout ==
    /\ loop.returned = "stalled" =>
          /\ loop.no_change_count > monitor_no_change
          /\ loop.elapsed < monitor_timeout
    /\ loop.returned = "timeout" =>
          /\ loop.no_change_count <= monitor_no_change
          /\ loop.elapsed >= monitor_timeout
    /\ (loop.returned \in {"stalled", "timeout"} /\ PaneNeverChanged) =>
          /\ loop.returned = "stalled"
          /\ loop.elapsed < monitor_timeout

\* ------------------------------------------------------- missing sessions
\* the session names the handlers can compute
SessionNames ==
    {project_tmux_session(u, generate_slug(n)) : u \in Users, n \in SampleNames}

\* C16: on a name without a live session kill_session, session_exists and
\* capture_pane raise nothing and leave the live sessions as they are;
\* session_exists answers false and capture_pane returns the empty text.
C16_MissingSessionHarmless ==
    \A name \in SessionNames \ sessions, pane \in Texts :
        /\ ~run_kill_session(sessions, name).raised
        /\ kill_session(sessions, name) = sessions
        /\ ~run_session_exists(sessions, name).raised
        /\ run_session_exists(sessions, name).sessions = sessions
        /\ ~session_exists(sessions, name)
        /\ ~run_capture_pane(sessions, name, pane).raised
        /\ run_capture_pane(sessions, name, pane).sessions = sessions
        /\ capture_pane(sessions, name, pane) = <<>>

\* a project that was never started has just been stopped, its kill
\* hitting no session, while another project's session stays live
C16_Witness ==
    /\ last.op = "stop_project"
    /\ last.was = "created"
    /\ last.code = 200
    /\ last.calls = <<Call("kill_session", SessionOf(last.id))>>
    /\ SessionOf(last.id) \notin sessions
    /\ sessions # {}

\* ------------------------------------------------------ research exchanges
\* the tasks whose CLI call can return
Returning == {t \in DOMAIN tasks :
                tasks[t].phase = "awaiting" /\ ~tasks[t].cancelled}

\* C17: when the CLI fails for a task, the transcript keeps every entry
\* it has (the user's message that launched the task among them) and
\* gets exactly one more, an assistant entry of the task's session that
\* starts with "Error:"; the task is over and its session, if it is
\* there, is idle.
C17_FailureRecorded ==
    \A t \in Returning :
        LET sid == tasks[t].session_id
            after == process_claude_response(Db, t, TRUE)
        IN  /\ after.messages =
                  Append(messages,
                         research_message(tasks[t].user_id, sid,
                                          "assistant", "Error: "))
            /\ t \notin DOMAIN after.tasks
            /\ sid \in DOMAIN research =>
                  after.research[sid].status = "idle"

\* the CLI has just failed: the transcript ends with the user's message
\* and the error entry, and the session is idle
C17_Witness ==
    /\ last.op = "task_finish"
    /\ last.code = 500
    /\ last.was = "thinking"
    /\ Len(messages) >= 2
    /\ messages[Len(messages)].content = "Error: "
    /\ messages[Len(messages) - 1].role = "user"
    /\ StatusIn(research, last.id) = "idle"

\* db after a cancel or a delete of session sid holds no task of the
\* session that is still to run and no entry of the session in
\* _running_tasks
CancelledAll(db, sid) ==
    /\ sid \notin DOMAIN db.running_tasks
    /\ \A t \in DOMAIN db.tasks :
          db.tasks[t].session_id = sid => db.tasks[t].cancelled

\* C18: when cancel_research or delete_research_session returns, every
\* unfinished task launched for the session is cancelled and
\* _running_tasks has no entry for the session; a work loop that runs for
\* a project is told to stop by stop_project and delete_project, which
\* leave the loop as it is.
C18_CancelReachesEveryTask ==
    /\ \A <<u, sid>> \in ResearchRequests :
          session_found(Db, u, sid) =>
              /\ CancelledAll(cancel_research(Db, u, sid).db, sid)
              /\ CancelledAll(delete_research_session(Db, u, sid).db, sid)
    /\ (last.op \in {"stop_project", "delete_project"} /\ last.code = 200) =>
          ~(/\ loop.project_id = last.id
            /\ loop.pc \in {"warmup", "top", "monitor"}
            /\ loop.running)

\* C19: send_message answers 201 with the user's entry appended to the
\* transcript, the session "thinking" and one new task that has not run
\* yet; the task's answer, when it comes, is appended after every entry
\* the transcript holds, so after the user's entry.
C19_UserEntryFirst ==
    /\ \A <<u, sid>> \in ResearchRequests :
          session_found(Db, u, sid) =>
              LET r == send_message(Db, u, sid)
                  new == DOMAIN r.db.tasks \ DOMAIN tasks
              IN  /\ r.code = 201
                  /\ r.db.messages =
                        Append(messages, research_message(u, sid, "user", "msg"))
                  /\ r.db.research[sid].status = "thinking"
                  /\ Cardinality(new) = 1
                  /\ \A t \in new :
                        /\ r.db.tasks[t].phase = "created"
                        /\ r.db.tasks[t].session_id = sid
                        /\ r.db.running_tasks[sid] = t
    /\ \A t \in Returning, failed \in BOOLEAN :
          LET after == process_claude_response(Db, t, failed).messages
          IN  /\ Len(after) = Len(messages) + 1
              /\ SubSeq(after, 1, Len(messages)) = messages
              /\ after[Len(after)].role = "assistant"
              /\ after[Len(after)].session_id = tasks[t].session_id

\* an exchange is complete: the user's entry, then the CLI's answer
C19_Witness ==
    /\ last.op = "task_finish"
    /\ last.code = 200
    /\ Len(messages) >= 2
    /\ messages[Len(messages) - 1].role = "user"
    /\ messages[Len(messages)].role = "assistant"
    /\ messages[Len(messages)].content = "response"
    /\ messages[Len(messages)].session_id = messages[Len(messages) - 1].session_id

\* -------------------------------------------------------------- ownership
\* C20: a request on a project or a research session by a user who does
\* not own it (get, update, delete, start, stop, restart; get, delete,
\* message, cancel) answers 404, makes no multiplexer call and changes
\* nothing: rows, transcript, workspaces, sessions and tasks.
C20_OthersGetNotFound ==
    /\ \A <<u, p>> \in ProjectRequests :
          (p \in DOMAIN projects /\ projects[p].user_id # u) =>
              \A r \in {get_project(Db, u, p), update_project(Db, u, p),
                         delete_project(Db, u, p), start_project(Db, u, p),
                         stop_project(Db, u, p), restart_project(Db, u, p)} :
                  r = Result(Db, 404, <<>>)
    /\ \A <<u, sid>> \in ResearchRequests :
          (sid \in DOMAIN research /\ research[sid].user_id # u) =>
              \A r \in {get_research_session(Db, u, sid),
                         delete_research_session(Db, u, sid),
                         send_message(Db, u, sid),
                         cancel_research(Db, u, sid)} :
                  r = Result(Db, 404, <<>>)

\* the other user has just tried to delete a running project
C20_Witness ==
    /\ last.op = "delete_project"
    /\ last.code = 404
    /\ last.was = "running"
    /\ last.id \in DOMAIN projects
    /\ projects[last.id].user_id # last.user
    /\ projects[last.id].tmux_session \in sessions
    /\ projects[last.id].workspace_path \in dirs

\* --------------------------------------------------------- the detector
PromptGlyphs == {">", "u276f", "$"}

\* the lines of a text, split at its line breaks
RECURSIVE Lines(_)
Lines(s) ==
    IF \E i \in 1..Len(s) : s[i] = "\n"
    THEN LET i == CHOOSE j \in 1..Len(s) :
                      s[j] = "\n" /\ \A k \in 1..(j - 1) : s[k] # "\n"
         IN  <<SubSeq(s, 1, i - 1)>> \o Lines(SubSeq(s, i + 1, Len(s)))
    ELSE <<s>>

\* the positions of a line that show something
Shown(line) == {i \in 1..Len(line) : ~IsSpace(line[i])}

\* the last line that shows something, without its trailing whitespace,
\* ends in a prompt glyph
EndsInPrompt(text) ==
    LET ls == Lines(text)
        full == {i \in 1..Len(ls) : Shown(ls[i]) # {}}
    IN  /\ full # {}
        /\ LET line == ls[Max(full)]
           IN  line[Max(Shown(line))] \in PromptGlyphs

\* C21: the detector reports idle exactly for the texts whose last
\* non-empty line (the last line that shows something), trailing
\* whitespace removed, ends in ">", U+276F or "$"; it reports busy for the
\* empty text and for every text of whitespace only; and the monitoring
\* returns at its first capture exactly when the captured text is such a
\* text.
C21_DetectorIdle ==
    /\ \A text \in PaneTexts :
          /\ claude_code_waiting_for_input(text) <=> EndsInPrompt(text)
          /\ (\A i \in 1..Len(text) : IsSpace(text[i])) =>
                ~claude_code_waiting_for_input(text)
    /\ loop.returned = "idle" => EndsInPrompt(loop.output)
    /\ (loop.pc = "monitor" /\ loop.elapsed > 0) =>
          ~EndsInPrompt(loop.output)

\* the monitoring returned on a prompt that a line break and a blank
\* follow
C21_Witness ==
    /\ loop.returned = "idle"
    /\ Len(loop.output) = 3
    /\ loop.output[1] \in PromptGlyphs
    /\ loop.output[2] = "\n"
    /\ loop.output[3] = " "

\* ------------------------------------------------- failing multiplexer
\* the status of project p after r agrees with what r did to the
\* project's session: a session r removed is not that of a running
\* project, a session r made is
Agrees(r, p) ==
    LET name == projects[p].tmux_session
        status == r.db.projects[p].status
    IN  /\ (name \in sessions /\ name \notin r.db.sessions) =>
              status # "running"
        /\ (name \notin sessions /\ name \in r.db.sessions) =>
              status = "running"

\* C22: a start or restart request changes a row of projects or
\* agent_instances only when it answers 200, after create_session and
\* send_keys both succeeded; when one of them fails the rows are as they
\* were and the project's status agrees with what the request did to the
\* project's session.
C22_StartAtomic ==
    \A rq \in ProjectRequests, fault \in Faults :
        Found(rq[1], rq[2]) =>
            \A r \in {start_project_on(Db, rq[1], rq[2], fault),
                       restart_project_on(Db, rq[1], rq[2], fault)} :
                /\ (r.db.projects # projects \/ r.db.instances # instances)
                      => /\ r.code = 200
                         /\ Len(r.calls) >= 2
                         /\ r.calls[Len(r.calls) - 1].fn = "create_session"
                         /\ r.calls[Len(r.calls)].fn = "send_keys"
                /\ r.code = 500 =>
                      /\ r.db.projects = projects
                      /\ r.db.instances = instances
                      /\ Agrees(r, rq[2])

\* ------------------------------------------------------ steps in order
\* a prompt is sent in this step
Sends == loop'.prompts = loop.prompts + 1
\* a step is marked done in this step
Marks == loop'.done # loop.done

LoopBounded ==
    /\ loop.prompts <= max_retries * MaxSteps
    /\ loop.pc = "monitor" => loop.error_count + 1 <= max_retries
    /\ loop.elapsed <= monitor_timeout

C25_StopTakesEffect ==
    /\ [](loop.stopped => ~loop.running)
    /\ [][loop.stopped =>
            /\ loop'.prompts = loop.prompts
            /\ loop'.done = loop.done
            /\ loop'.status = loop.status
            /\ loop'.error_count = loop.error_count
            /\ loop'.elapsed = loop.elapsed
            /\ loop'.pc \in {loop.pc, "top", "exited"}]_vars

\* ---------------------------------------------------------- instance rows
\* C26: every project has at most one agent_instances row with status
\* "running", it has one exactly when its own status is "running", and
\* every row with status "stopped" has stopped_at set.
C26_OneRunningRow ==
    /\ \A p \in DOMAIN projects :
          /\ Cardinality(running_instances_of(Db, p)) <= 1
          /\ Cardinality(running_instances_of(Db, p)) = 1
                <=> projects[p].status = "running"
    /\ \A i \in DOMAIN instances :
          instances[i].status = "stopped" => instances[i].stopped_at # 0

\* a project that was restarted and then updated: one stopped row with
\* its time, one running row, status "running"
C26_Witness ==
    /\ last.op = "update_project"
    /\ last.code = 200
    /\ projects[last.id].status = "running"
    /\ \E i, j \in instances_of(Db, last.id) :
          /\ instances[i].status = "stopped"
          /\ instances[i].stopped_at # 0
          /\ instances[j].status = "running"

\* ----------------------------------------------- response tasks in flight
\* the tasks of session sid that were launched and have neither finished
\* nor been cancelled
InFlight(sid) ==
    {t \in DOMAIN tasks : tasks[t].session_id = sid /\ ~tasks[t].cancelled}

\* C27: the status of a research session is "thinking" exactly when a
\* response task of the session is in flight.
C27_ThinkingIffInFlight ==
    \A sid \in DOMAIN research :
        research[sid].status = "thinking" <=> InFlight(sid) # {}

\* C28: every task in flight is the entry of _running_tasks under its
\* session id, and a task that ends, finished or cancelled, leaves the
\* entry of every task still in flight where it was.
C28_RegistryTracksTasks ==
    /\ [](\A t \in DOMAIN tasks :
            ~tasks[t].cancelled =>
                /\ tasks[t].session_id \in DOMAIN running_tasks
                /\ running_tasks[tasks[t].session_id] = t)
    /\ [][last'.op \in {"task_finish", "task_cancelled"} =>
            \A sid \in DOMAIN running_tasks :
                running_tasks[sid] \in DOMAIN tasks' =>
                    /\ sid \in DOMAIN running_tasks'
                    /\ running_tasks'[sid] = running_tasks[sid]]_vars

\* C29: every chat_messages row of type "research" belongs to a research
\* session that exists: no row is left of a deleted session and none is
\* added for it.
C29_NoRowAfterDelete ==
    \A i \in 1..Len(messages) :
        messages[i].session_type = "research" =>
            messages[i].session_id \in DOMAIN research

\* ------------------------------------------------------ read-only stream
\* C30: a pass of the loop of any connection leaves the live sessions and
\* every row as they are and changes no other connection; what it sends
\* and remembers is decided by its own last text alone; the handler has
\* called nothing but session_exists and capture_pane; and a step of a
\* connection, the disconnect of its client included, leaves the
\* sessions and the projects as they were.
C30_StreamReadOnly ==
    /\ [](\A c \in Connections :
            /\ connections[c].called \subseteq {"session_exists", "capture_pane"}
            /\ connections[c].pc = "streaming" =>
                  \A pane \in Texts :
                      LET r == poll_connection(connections, c, Db, pane)
                      IN  /\ r.db = Db
                          /\ \A d \in Connections \ {c} :
                                r.connections[d] = connections[d]
                          /\ r.connections[c] =
                                terminal_poll(connections[c], sessions, pane))
    /\ [][connections' # connections =>
            /\ sessions' = sessions
            /\ projects' = projects
            /\ instances' = instances]_vars

\* of two connections to the running project one has sent two texts and
\* the other, whose client went away, was closed after it had sent one
C30_Witness ==
    /\ \E c, d \in Connections :
          /\ connections[c].pc = "streaming"
          /\ Len(connections[c].sent) = 2
          /\ connections[d].pc = "closed"
          /\ Len(connections[d].sent) = 1
          /\ connections[c].tmux_session = connections[d].tmux_session
          /\ connections[c].tmux_session \in sessions
    /\ \E p \in DOMAIN projects : projects[p].status = "running"

====
